---------------------------- MODULE Spec2Model ----------------------------
(***************************************************************************)
(* Model of the ADA compliance detection core: the five rule-based         *)
(* category analyzers (src/cv_rules), the router RuleBasedAnalyzer, the    *)
(* aggregator BaseAnalyzer.analyze_all_detections and the model-backed     *)
(* ClaudeAPIAnalyzer.                                                      *)
(*                                                                         *)
(* OpenCV and numpy are external libraries.  What they compute from the    *)
(* pixels of a region (edge rows, contours, colour masks, Hough segments,  *)
(* luminance extrema, patch deviations) enters the model as the record     *)
(* `stats`, drawn from bounded sets that are consistent with the region's  *)
(* size.  Everything the repository's own code does with these numbers is  *)
(* modelled: thresholds, branch order, records built, exceptions.          *)
(*                                                                         *)
(* Python floats are modelled by exact rationals [n, d]; every comparison  *)
(* against a float literal is cross-multiplied.  For the sizes within the  *)
(* bounds below the float comparison and the exact one agree.              *)
(***************************************************************************)
EXTENDS Integers, Sequences, FiniteSets, TLC

(***************************************************************************)
(* Python values.                                                          *)
(***************************************************************************)
S(s) == [t |-> "str", s |-> s]
Chars(cs) == [t |-> "str", chars |-> cs]
N(n, d) == [t |-> "num", n |-> n, d |-> d]
I(n) == [t |-> "num", n |-> n, d |-> 1]
PyNone == [t |-> "none"]
PyList(items) == [t |-> "list", items |-> items]
PyDict(f) == [t |-> "dict", f |-> f]
EmptyDict == [k \in {} |-> PyNone]

Min(a, b) == IF a <= b THEN a ELSE b
Max(a, b) == IF a >= b THEN a ELSE b

\* round(n/d) to the nearest integer, ties to even (Python's round)
RoundDiv(n, d) ==
    LET q == n \div d
        r == n % d
    IN  IF 2 * r < d THEN q
        ELSE IF 2 * r > d THEN q + 1
        ELSE IF q % 2 = 0 THEN q ELSE q + 1

\* the outcome of a call: a returned value, or an exception that propagates
Return(v) == [raised |-> FALSE, value |-> v]
Raise(e) == [raised |-> TRUE, error |-> e]

\* ndarray.size of an (h, w, 3) region
RegionSize(region) == region.h * region.w * 3


(***************************************************************************)
(* cv_rules/door_analyzer.py                                               *)
(* stats.horizontal_edges : rows of the bottom section whose edge-pixel    *)
(*                          count exceeds 30% of the width (Canny)         *)
(* stats.contours         : contours found in the middle band, each with   *)
(*                          twice its contourArea and its boundingRect     *)
(***************************************************************************)
narrow_door_ratio == N(25, 10)
very_narrow_ratio == N(30, 10)

\* a > b, a < b, a >= b, a <= b for rationals with positive denominators
GtInclusive(a, b) == a.n * b.d >= b.n * a.d

Gt(a, b) == a.n * b.d > b.n * a.d

Lt(a, b) == a.n * b.d < b.n * a.d

GeStrict(a, b) == a.n * b.d > b.n * a.d

Ge(a, b) == a.n * b.d >= b.n * a.d

Le(a, b) == a.n * b.d <= b.n * a.d

\* int(height * 0.85), int(height * 0.4), int(height * 0.6)
BottomStart(height) == (85 * height) \div 100
MiddleStart(height) == (4 * height) \div 10
MiddleEnd(height) == (6 * height) \div 10

\* cv2.cvtColor raises on an empty image
CvtColorRaises(image) == RegionSize(image) = 0

DoorCheckWidth(height, width) ==
    LET aspect_ratio == IF width > 0 THEN N(height, width) ELSE N(0, 1)
        measured == N(RoundDiv(100 * aspect_ratio.n, aspect_ratio.d), 100)
        Finding(confidence, estimated_width, description) ==
            [type |-> S("Door Width"),
             severity |-> S("Critical"),
             ada_code |-> S("404.2.3"),
             description |-> S(description),
             recommendation |-> S("Verify actual door width"),
             confidence |-> confidence,
             detection_method |-> S("rule_based_cv"),
             measurements |-> [aspect_ratio |-> measured,
                               estimated_width_inches |-> I(estimated_width),
                               required_width_inches |-> I(32)]]
    IN  IF Gt(aspect_ratio, very_narrow_ratio)
        THEN Finding(N(70, 100), 28, "width significantly below required 32 inches")
        ELSE IF Gt(aspect_ratio, narrow_door_ratio)
        THEN Finding(N(60, 100), 30, "width may be below required 32 inches")
        ELSE PyNone

DoorCheckThreshold(image, height, width, st) ==
    IF CvtColorRaises(image) THEN Raise("cv2.error")
    ELSE
    LET rows == height - BottomStart(height)
        edge_density == IF rows > 0 THEN N(st.horizontal_edges, rows) ELSE N(0, 1)
        \* min(0.55 + edge_density * 0.2, 0.75)
        raw == N(55 * edge_density.d + 20 * edge_density.n, 100 * edge_density.d)
        confidence == IF Le(raw, N(75, 100)) THEN raw ELSE N(75, 100)
    IN  IF Gt(edge_density, N(3, 10))
        THEN Return([type |-> S("Door Threshold"),
                     severity |-> S("Moderate"),
                     ada_code |-> S("404.2.5"),
                     description |-> S("horizontal edge features at door base"),
                     recommendation |-> S("Verify threshold height"),
                     confidence |-> confidence,
                     detection_method |-> S("rule_based_cv"),
                     measurements |->
                        [edge_density |-> N(RoundDiv(100 * edge_density.n, edge_density.d), 100),
                         max_threshold_height_inches |-> N(5, 10)]])
        ELSE Return(PyNone)

\* min_area < area < max_area and max(w, h) / min(w, h) < 3
\* the same test with the upper area limit and the ratio limit included
IsHardwareInclusive(c, height, width) ==
    /\ 250 * c.area2 > width * height
    /\ 10 * c.area2 <= width * height
    /\ (Min(c.w, c.h) > 0 => Max(c.w, c.h) <= 3 * Min(c.w, c.h))

IsHardware(c, height, width) ==
    /\ 250 * c.area2 > width * height
    /\ 10 * c.area2 < width * height
    /\ (Min(c.w, c.h) > 0 => Max(c.w, c.h) < 3 * Min(c.w, c.h))

\* Canny and findContours on the middle band; a band without rows has no
\* edge pixel and so no contour
BandContours(height, st) ==
    IF MiddleEnd(height) - MiddleStart(height) > 0 THEN st.contours ELSE <<>>

DoorCheckHardware(image, height, width, st) ==
    IF CvtColorRaises(image) THEN Raise("cv2.error")
    ELSE
    LET contours == BandContours(height, st)
        hardware_contours == SelectSeq(contours, LAMBDA c : IsHardware(c, height, width))
    IN  IF Len(hardware_contours) < 2
        THEN Return([type |-> S("Door Hardware"),
                     severity |-> S("Minor"),
                     ada_code |-> S("404.2.7"),
                     description |-> S("Limited hardware features detected"),
                     recommendation |-> S("Verify door hardware is lever-style"),
                     confidence |-> N(50, 100),
                     detection_method |-> S("rule_based_cv"),
                     measurements |-> [hardware_features_detected |-> I(Len(hardware_contours))]])
        ELSE Return(PyNone)

\* `if x: violations.append(x)` for the dict-or-None a check returns
AppendFinding(violations, x) == IF x = PyNone THEN violations ELSE Append(violations, x)

DoorChecks(image, st) ==
    LET height == image.h
        width == image.w
        v1 == AppendFinding(<<>>, DoorCheckWidth(height, width))
        threshold == DoorCheckThreshold(image, height, width, st)
        hardware == DoorCheckHardware(image, height, width, st)
    IN  IF threshold.raised THEN threshold
        ELSE IF hardware.raised THEN hardware
        ELSE Return(AppendFinding(AppendFinding(v1, threshold.value), hardware.value))

DoorAnalyzeNoGuard(image, detection, st) == DoorChecks(image, st)

DoorAnalyze(image, detection, st) ==
    IF RegionSize(image) = 0 THEN Return(<<>>) ELSE DoorChecks(image, st)


(***************************************************************************)
(* cv_rules/parking_analyzer.py                                            *)
(* stats.blue_pixels  : pixels inside the blue HSV range (inRange)         *)
(* stats.blue_rowsum  : sum of the row indices of those pixels             *)
(* stats.white_pixels : pixels inside the near-white HSV range             *)
(***************************************************************************)
min_blue_percentage == N(5, 100)
min_white_percentage == N(2, 100)

ParkingCheckSignage(image, height, width, st) ==
    IF CvtColorRaises(image) THEN Raise("cv2.error")
    ELSE
    LET mask_size == height * width
        blue_percentage == N(st.blue_pixels, mask_size)
        white_percentage == N(st.white_pixels, mask_size)
        has_blue == Ge(blue_percentage, min_blue_percentage)
        has_white == Ge(white_percentage, min_white_percentage)
        blue_measured == N(RoundDiv(1000 * st.blue_pixels, mask_size), 10)
        white_measured == N(RoundDiv(1000 * st.white_pixels, mask_size), 10)
    IN  IF ~has_blue
        THEN Return([type |-> S("Parking Signage"),
                     severity |-> S("Critical"),
                     ada_code |-> S("502.6"),
                     description |-> S("No blue signage detected"),
                     recommendation |-> S("Install accessible parking sign"),
                     confidence |-> N(80, 100),
                     detection_method |-> S("rule_based_cv"),
                     measurements |-> [blue_percentage |-> blue_measured,
                                       white_percentage |-> white_measured,
                                       required_blue_percentage |-> N(5, 1)]])
        ELSE IF has_blue /\ ~has_white
        THEN Return([type |-> S("Wheelchair Symbol"),
                     severity |-> S("Critical"),
                     ada_code |-> S("502.6"),
                     description |-> S("Blue sign detected but missing white wheelchair symbol"),
                     recommendation |-> S("Verify sign includes white wheelchair symbol"),
                     confidence |-> N(70, 100),
                     detection_method |-> S("rule_based_cv"),
                     measurements |-> [blue_percentage |-> blue_measured,
                                       white_percentage |-> white_measured]])
        ELSE Return(PyNone)

\* the comparison with 0.6 taken inclusive
ParkingCheckSignPositionInclusive(image, height, width, st) ==
    IF CvtColorRaises(image) THEN Raise("cv2.error")
    ELSE
    IF st.blue_pixels > 0
    THEN \* relative_position >= 0.6
         IF 10 * st.blue_rowsum >= 6 * st.blue_pixels * height
         THEN Return([type |-> S("Sign Height"),
                      severity |-> S("Moderate"),
                      ada_code |-> S("502.6"),
                      description |-> S("Sign appears in lower portion of image"),
                      recommendation |-> S("Verify sign mounting height"),
                      confidence |-> N(60, 100),
                      detection_method |-> S("rule_based_cv"),
                      measurements |->
                         [vertical_position_percentage |->
                              I(RoundDiv(100 * st.blue_rowsum, st.blue_pixels * height)),
                          required_height_inches |-> I(60)]])
         ELSE Return(PyNone)
    ELSE Return(PyNone)

ParkingCheckSignPosition(image, height, width, st) ==
    IF CvtColorRaises(image) THEN Raise("cv2.error")
    ELSE
    IF st.blue_pixels > 0
    THEN \* relative_position = mean(rows) / height > 0.6
         IF 10 * st.blue_rowsum > 6 * st.blue_pixels * height
         THEN Return([type |-> S("Sign Height"),
                      severity |-> S("Moderate"),
                      ada_code |-> S("502.6"),
                      description |-> S("Sign appears in lower portion of image"),
                      recommendation |-> S("Verify sign mounting height"),
                      confidence |-> N(60, 100),
                      detection_method |-> S("rule_based_cv"),
                      measurements |->
                         [vertical_position_percentage |->
                              I(RoundDiv(100 * st.blue_rowsum, st.blue_pixels * height)),
                          required_height_inches |-> I(60)]])
         ELSE Return(PyNone)
    ELSE Return(PyNone)

ParkingChecks(image, st) ==
    LET height == image.h
        width == image.w
        sign == ParkingCheckSignage(image, height, width, st)
        position == ParkingCheckSignPosition(image, height, width, st)
    IN  IF sign.raised THEN sign
        ELSE IF position.raised THEN position
        ELSE Return(AppendFinding(AppendFinding(<<>>, sign.value), position.value))

ParkingAnalyze(image, detection, st) ==
    IF RegionSize(image) = 0 THEN Return(<<>>) ELSE ParkingChecks(image, st)


(***************************************************************************)
(* Strings that the code inspects (class names) are sequences of           *)
(* characters; str.lower() maps each upper-case letter to its lower-case   *)
(* letter and leaves every other character alone.                          *)
(***************************************************************************)
UpperCase == <<"A", "B", "C", "D", "E", "F", "G", "H", "I", "J", "K", "L", "M",
               "N", "O", "P", "Q", "R", "S", "T", "U", "V", "W", "X", "Y", "Z">>
LowerCase == <<"a", "b", "c", "d", "e", "f", "g", "h", "i", "j", "k", "l", "m",
               "n", "o", "p", "q", "r", "s", "t", "u", "v", "w", "x", "y", "z">>

LowerChar(c) ==
    IF \E k \in 1..26 : UpperCase[k] = c
    THEN LowerCase[CHOOSE k \in 1..26 : UpperCase[k] = c]
    ELSE c

Lower(str) == [k \in 1..Len(str) |-> LowerChar(str[k])]

\* `x in list`
InList(x, list) == \E k \in 1..Len(list) : list[k] = x

(***************************************************************************)
(* cv_rules/pathway_analyzer.py                                            *)
(***************************************************************************)
obstruction_objects ==
    << <<"c", "h", "a", "i", "r">>,
       <<"c", "o", "u", "c", "h">>,
       <<"b", "e", "n", "c", "h">>,
       <<"p", "o", "t", "t", "e", "d", "_", "p", "l", "a", "n", "t">>,
       <<"v", "a", "s", "e">>,
       <<"s", "u", "i", "t", "c", "a", "s", "e">>,
       <<"b", "a", "c", "k", "p", "a", "c", "k">>,
       <<"h", "a", "n", "d", "b", "a", "g">>,
       <<"u", "m", "b", "r", "e", "l", "l", "a">>,
       <<"b", "i", "c", "y", "c", "l", "e">>,
       <<"m", "o", "t", "o", "r", "c", "y", "c", "l", "e">>,
       <<"f", "i", "r", "e", "_", "h", "y", "d", "r", "a", "n", "t">> >>

high_risk_objects ==
    << <<"c", "h", "a", "i", "r">>,
       <<"c", "o", "u", "c", "h">>,
       <<"b", "e", "n", "c", "h">>,
       <<"b", "i", "c", "y", "c", "l", "e">> >>

\* the same check testing the larger fraction first
PathwayCheckObstructionLargestFirst(image, detection) ==
    LET w == detection.bbox[3]
        h == detection.bbox[4]
        object_name == detection.class_name
        height == image.h
        width == image.w
        relative_size == IF width * height > 0 THEN N(w * h, width * height) ELSE N(0, 1)
        sized == IF Gt(relative_size, N(5, 10))
                 THEN [severity |-> "Critical", confidence |-> 70]
                 ELSE IF Gt(relative_size, N(3, 10))
                 THEN [severity |-> "Moderate", confidence |-> 65]
                 ELSE [severity |-> "Moderate", confidence |-> 60]
        confidence == IF InList(Lower(object_name), high_risk_objects)
                      THEN sized.confidence + 5
                      ELSE sized.confidence
    IN  [type |-> S("Pathway Obstruction"),
         severity |-> S(sized.severity),
         ada_code |-> S("403.5.1"),
         description |-> S("object detected in potential pathway area"),
         recommendation |-> S("Relocate object to maintain clear pathway width"),
         confidence |-> N(Min(confidence, 75), 100),
         detection_method |-> S("rule_based_cv"),
         measurements |->
            [object_type |-> Chars(object_name),
             relative_size_percentage |->
                 N(RoundDiv(1000 * relative_size.n, relative_size.d), 10),
             required_clear_width_inches |-> I(36),
             max_protrusion_inches |-> I(4)]]

PathwayCheckObstruction(image, detection) ==
    LET w == detection.bbox[3]
        h == detection.bbox[4]
        object_name == detection.class_name
        height == image.h
        width == image.w
        relative_size == IF width * height > 0 THEN N(w * h, width * height) ELSE N(0, 1)
        sized == IF Gt(relative_size, N(3, 10))
                 THEN [severity |-> "Moderate", confidence |-> 65]
                 ELSE IF Gt(relative_size, N(5, 10))
                 THEN [severity |-> "Critical", confidence |-> 70]
                 ELSE [severity |-> "Moderate", confidence |-> 60]
        confidence == IF InList(Lower(object_name), high_risk_objects)
                      THEN sized.confidence + 5
                      ELSE sized.confidence
    IN  [type |-> S("Pathway Obstruction"),
         severity |-> S(sized.severity),
         ada_code |-> S("403.5.1"),
         description |-> S("object detected in potential pathway area"),
         recommendation |-> S("Relocate object to maintain clear pathway width"),
         confidence |-> N(Min(confidence, 75), 100),
         detection_method |-> S("rule_based_cv"),
         measurements |->
            [object_type |-> Chars(object_name),
             relative_size_percentage |->
                 N(RoundDiv(1000 * relative_size.n, relative_size.d), 10),
             required_clear_width_inches |-> I(36),
             max_protrusion_inches |-> I(4)]]

\* the allow-list test on the class name as given
PathwayAnalyzeCaseSensitive(image, detection, st) ==
    IF RegionSize(image) = 0 THEN Return(<<>>)
    ELSE IF ~InList(detection.class_name, obstruction_objects) THEN Return(<<>>)
    ELSE Return(AppendFinding(<<>>, PathwayCheckObstruction(image, detection)))

PathwayAnalyze(image, detection, st) ==
    IF RegionSize(image) = 0 THEN Return(<<>>)
    ELSE IF ~InList(Lower(detection.class_name), obstruction_objects) THEN Return(<<>>)
    ELSE Return(AppendFinding(<<>>, PathwayCheckObstruction(image, detection)))


(***************************************************************************)
(* cv_rules/ramp_analyzer.py                                               *)
(* stats.slope_lines : segments HoughLinesP returns for the slope check    *)
(* stats.rail_lines  : segments HoughLinesP returns for the handrail check *)
(* HoughLinesP returns None, never an empty array, when it finds nothing:  *)
(* the empty sequence stands for None.  A segment is [x1, x2, angle];      *)
(* angle is abs(degrees(arctan((y2 - y1) / (x2 - x1)))) in hundredths of   *)
(* a degree and is read only when x1 # x2.                                 *)
(***************************************************************************)
max_slope_degrees == 500
warning_slope_degrees == 400

\* the angles the loop of _check_slope keeps, in segment order
RECURSIVE SlopeAngles(_)
SlopeAngles(lines) ==
    IF lines = <<>> THEN <<>>
    ELSE LET line == Head(lines)
             rest == SlopeAngles(Tail(lines))
         IN  IF line.x2 - line.x1 # 0 /\ 1000 < line.angle /\ line.angle < 8000
             THEN <<line.angle>> \o rest
             ELSE rest

SeqMax(seq) == CHOOSE m \in {seq[k] : k \in 1..Len(seq)} :
                   \A k \in 1..Len(seq) : seq[k] <= m

RampCheckSlope(image, height, width, st) ==
    IF CvtColorRaises(image) THEN Raise("cv2.error")
    ELSE
    LET lines == st.slope_lines
        angles == SlopeAngles(lines)
        steepest_angle == SeqMax(angles)
        Finding(severity, confidence, description) ==
            [type |-> S("Ramp Slope"),
             severity |-> S(severity),
             ada_code |-> S("405.2"),
             description |-> S(description),
             recommendation |-> S("Verify ramp slope with physical measurement"),
             confidence |-> confidence,
             detection_method |-> S("rule_based_cv"),
             measurements |->
                [detected_angle_degrees |-> N(RoundDiv(steepest_angle, 10), 10),
                 max_allowed_angle_degrees |-> N(476, 100),
                 max_allowed_ratio |-> S("1:12"),
                 max_allowed_percentage |-> N(833, 100)]]
    IN  IF Len(lines) = 0 THEN Return(PyNone)
        ELSE IF Len(angles) = 0 THEN Return(PyNone)
        ELSE IF steepest_angle > max_slope_degrees
        THEN Return(Finding("Critical", N(60, 100), "exceeding ADA maximum slope"))
        ELSE IF steepest_angle > warning_slope_degrees
        THEN Return(Finding("Moderate", N(55, 100), "approaching ADA maximum slope"))
        ELSE Return(PyNone)

\* avg_x = (x1 + x2) / 2 < width * 0.3, avg_x > width * 0.7
InLeftThird(line, width) == 10 * (line.x1 + line.x2) < 6 * width
InRightThird(line, width) == 10 * (line.x1 + line.x2) > 14 * width

RampCheckHandrails(image, height, width, st) ==
    IF CvtColorRaises(image) THEN Raise("cv2.error")
    ELSE
    LET lines == st.rail_lines
        left_lines == SelectSeq(lines, LAMBDA line : InLeftThird(line, width))
        right_lines == SelectSeq(lines, LAMBDA line :
                           ~InLeftThird(line, width) /\ InRightThird(line, width))
        missing == (IF Len(left_lines) = 0 THEN <<"left">> ELSE <<>>)
                   \o (IF Len(right_lines) = 0 THEN <<"right">> ELSE <<>>)
    IN  IF Len(lines) = 0
        THEN Return([type |-> S("Ramp Handrails"),
                     severity |-> S("Moderate"),
                     ada_code |-> S("405.8"),
                     description |-> [t |-> "str", s |-> "No handrail features detected",
                                      missing |-> <<>>],
                     recommendation |-> S("Install handrails on both sides of ramp"),
                     confidence |-> N(65, 100),
                     detection_method |-> S("rule_based_cv"),
                     measurements |-> [handrail_features_detected |-> I(0),
                                       required_handrails |-> I(2)]])
        ELSE IF Len(left_lines) = 0 \/ Len(right_lines) = 0
        THEN Return([type |-> S("Ramp Handrails"),
                     severity |-> S("Moderate"),
                     ada_code |-> S("405.8"),
                     description |-> [t |-> "str", s |-> "Handrail features missing on side(s)",
                                      missing |-> missing],
                     recommendation |-> S("Install handrails on both sides"),
                     confidence |-> N(60, 100),
                     detection_method |-> S("rule_based_cv"),
                     measurements |-> [left_handrail_features |-> I(Len(left_lines)),
                                       right_handrail_features |-> I(Len(right_lines)),
                                       required_handrails |-> I(2)]])
        ELSE Return(PyNone)

RampChecks(image, st) ==
    LET height == image.h
        width == image.w
        slope == RampCheckSlope(image, height, width, st)
        handrail == RampCheckHandrails(image, height, width, st)
    IN  IF slope.raised THEN slope
        ELSE IF handrail.raised THEN handrail
        ELSE Return(AppendFinding(AppendFinding(<<>>, slope.value), handrail.value))

RampAnalyze(image, detection, st) ==
    IF RegionSize(image) = 0 THEN Return(<<>>) ELSE RampChecks(image, st)

(***************************************************************************)
(* cv_rules/signage_analyzer.py                                            *)
(* stats.max_luminance, stats.min_luminance : extrema of the L channel     *)
(* stats.texture_scores : np.std, in tenths, of each patch of a grid of up  *)
(*                        to four patches, in the order they are visited   *)
(***************************************************************************)
min_contrast_ratio == N(30, 10)
low_contrast_ratio == N(25, 10)
min_texture_stddev == N(150, 10)
patch_size == 20

\* (max + 0.05) / (min + 0.05) of the unscaled channel values
ContrastRatioUnscaled(max_luminance, min_luminance) ==
    N(20 * max_luminance + 1, 20 * min_luminance + 1)

\* (max/255 + 0.05) / (min/255 + 0.05) = (20 max + 255) / (20 min + 255)
ContrastRatio(max_luminance, min_luminance) ==
    N(20 * max_luminance + 255, 20 * min_luminance + 255)

SignageCheckContrast(image, height, width, st) ==
    IF CvtColorRaises(image) THEN Raise("cv2.error")
    ELSE
    LET max_luminance == st.max_luminance
        min_luminance == st.min_luminance
        contrast_ratio == ContrastRatio(max_luminance, min_luminance)
        Finding(severity, confidence, description) ==
            [type |-> S("Sign Contrast"),
             severity |-> S(severity),
             ada_code |-> S("703.5"),
             description |-> S(description),
             recommendation |-> S("Improve contrast between characters and background"),
             confidence |-> confidence,
             detection_method |-> S("rule_based_cv"),
             measurements |->
                [contrast_ratio |-> N(RoundDiv(100 * contrast_ratio.n, contrast_ratio.d), 100),
                 min_required_ratio |-> N(30, 10),
                 max_luminance |-> I(max_luminance),
                 min_luminance |-> I(min_luminance)]]
    IN  IF Lt(contrast_ratio, low_contrast_ratio)
        THEN Return(Finding("Critical", N(70, 100), "Very low contrast ratio"))
        ELSE IF Lt(contrast_ratio, min_contrast_ratio)
        THEN Return(Finding("Moderate", N(65, 100), "Low contrast ratio"))
        ELSE Return(PyNone)

\* len(range(0, n - patch_size, patch_size))
PatchStarts(n) ==
    IF n - patch_size <= 0 THEN 0 ELSE (n - patch_size + patch_size - 1) \div patch_size

PatchCount(height, width) == PatchStarts(height) * PatchStarts(width)

RECURSIVE SeqSum(_)
SeqSum(seq) == IF seq = <<>> THEN 0 ELSE Head(seq) + SeqSum(Tail(seq))

\* the same check without the test of the largest patch score
SignageCheckTactileMeanOnly(image, height, width, st) ==
    IF CvtColorRaises(image) THEN Raise("cv2.error")
    ELSE
    LET texture_scores == SubSeq(st.texture_scores, 1, PatchCount(height, width))
        count == Len(texture_scores)
        avg_texture == N(SeqSum(texture_scores), 10 * count)
        max_texture == N(SeqMax(texture_scores), 10)
    IN  IF count = 0 THEN Return(PyNone)
        ELSE IF Lt(avg_texture, min_texture_stddev)
        THEN Return([type |-> S("Tactile Features"),
                     severity |-> S("Minor"),
                     ada_code |-> S("703.2"),
                     description |-> S("Smooth surface detected"),
                     recommendation |-> S("add raised characters and Grade 2 braille"),
                     confidence |-> N(55, 100),
                     detection_method |-> S("rule_based_cv"),
                     measurements |->
                        [average_texture_score |->
                             N(RoundDiv(SeqSum(texture_scores), count), 10),
                         max_texture_score |-> max_texture,
                         texture_threshold |-> min_texture_stddev,
                         min_character_height_inches |-> N(625, 1000),
                         max_character_height_inches |-> N(20, 10)]])
        ELSE Return(PyNone)

SignageCheckTactile(image, height, width, st) ==
    IF CvtColorRaises(image) THEN Raise("cv2.error")
    ELSE
    LET texture_scores == SubSeq(st.texture_scores, 1, PatchCount(height, width))
        count == Len(texture_scores)
        avg_texture == N(SeqSum(texture_scores), 10 * count)
        max_texture == N(SeqMax(texture_scores), 10)
    IN  IF count = 0 THEN Return(PyNone)
        ELSE IF Lt(avg_texture, min_texture_stddev) /\ Lt(max_texture, N(250, 10))
        THEN Return([type |-> S("Tactile Features"),
                     severity |-> S("Minor"),
                     ada_code |-> S("703.2"),
                     description |-> S("Smooth surface detected"),
                     recommendation |-> S("add raised characters and Grade 2 braille"),
                     confidence |-> N(55, 100),
                     detection_method |-> S("rule_based_cv"),
                     measurements |->
                        [average_texture_score |->
                             N(RoundDiv(SeqSum(texture_scores), count), 10),
                         max_texture_score |-> max_texture,
                         texture_threshold |-> min_texture_stddev,
                         min_character_height_inches |-> N(625, 1000),
                         max_character_height_inches |-> N(20, 10)]])
        ELSE Return(PyNone)

SignageChecks(image, st) ==
    LET height == image.h
        width == image.w
        contrast == SignageCheckContrast(image, height, width, st)
        tactile == SignageCheckTactile(image, height, width, st)
    IN  IF contrast.raised THEN contrast
        ELSE IF tactile.raised THEN tactile
        ELSE Return(AppendFinding(AppendFinding(<<>>, contrast.value), tactile.value))

SignageAnalyze(image, detection, st) ==
    IF RegionSize(image) = 0 THEN Return(<<>>) ELSE SignageChecks(image, st)


(***************************************************************************)
(* ada_compliance_system/object_detector.py: DetectionResult.get_crop      *)
(* image[y:y+h, x:x+w] with Python's slice rules.                          *)
(* A detection is [class_name, bbox, scene]: `scene` stands for the pixels *)
(* under the box, i.e. what OpenCV measures on the crop and what the       *)
(* external model answers for it.                                          *)
(***************************************************************************)
SliceIndex(k, n) == IF k < 0 THEN Max(k + n, 0) ELSE Min(k, n)
SliceLen(start, stop, n) == Max(SliceIndex(stop, n) - SliceIndex(start, n), 0)

GetCrop(image, bbox) ==
    LET x == bbox[1]
        y == bbox[2]
        w == bbox[3]
        h == bbox[4]
    IN  [h |-> SliceLen(y, y + h, image.h), w |-> SliceLen(x, x + w, image.w)]

(***************************************************************************)
(* base_analyzer.py: ViolationResult                                       *)
(***************************************************************************)
\* the dataclass constructor with severity and type exchanged
ViolationResultSwapped(type, severity, ada_code, description, recommendation, confidence, detection_method, measurements) ==
    [type |-> severity,
     severity |-> type,
     ada_code |-> ada_code,
     description |-> description,
     recommendation |-> recommendation,
     confidence |-> confidence,
     detection_method |-> detection_method,
     measurements |-> IF measurements = PyNone THEN EmptyDict ELSE measurements]

ViolationResult(type, severity, ada_code, description, recommendation, confidence, detection_method, measurements) ==
    [type |-> type,
     severity |-> severity,
     ada_code |-> ada_code,
     description |-> description,
     recommendation |-> recommendation,
     confidence |-> confidence,
     detection_method |-> detection_method,
     measurements |-> IF measurements = PyNone THEN EmptyDict ELSE measurements]

to_dict(v) ==
    [type |-> v.type,
     severity |-> v.severity,
     ada_code |-> v.ada_code,
     description |-> v.description,
     recommendation |-> v.recommendation,
     confidence |-> v.confidence,
     detection_method |-> v.detection_method,
     measurements |-> v.measurements]

\* dict.get(key) without its default
GetOrNone(dict, key, default) == IF key \in DOMAIN dict THEN dict[key] ELSE PyNone

\* dict.get(key, default) on a dict modelled as a function of its keys
Get(dict, key, default) == IF key \in DOMAIN dict THEN dict[key] ELSE default

(***************************************************************************)
(* rule_based_analyzer.py                                                  *)
(***************************************************************************)
door_objects == <<<<"d", "o", "o", "r">>, <<"e", "n", "t", "r", "a", "n", "c", "e">>>>
parking_objects == <<<<"c", "a", "r">>, <<"t", "r", "u", "c", "k">>, <<"b", "u", "s">>, <<"p", "a", "r", "k", "i", "n", "g">>>>
ramp_objects == <<<<"r", "a", "m", "p">>, <<"s", "t", "a", "i", "r", "s">>, <<"s", "t", "e", "p", "s">>>>
sign_objects == <<<<"s", "i", "g", "n">>, <<"s", "i", "g", "n", "a", "g", "e">>, <<"s", "t", "o", "p", "_", "s", "i", "g", "n">>, <<"s", "t", "r", "e", "e", "t", "_", "s", "i", "g", "n">>>>

Route(object_type) ==
    IF InList(object_type, door_objects) THEN "door"
    ELSE IF InList(object_type, parking_objects) THEN "parking"
    ELSE IF InList(object_type, ramp_objects) THEN "ramp"
    ELSE IF InList(object_type, sign_objects) THEN "signage"
    ELSE "pathway"

Analyze(analyzer_name, cropped, detection, st) ==
    CASE analyzer_name = "door" -> DoorAnalyze(cropped, detection, st)
      [] analyzer_name = "parking" -> ParkingAnalyze(cropped, detection, st)
      [] analyzer_name = "ramp" -> RampAnalyze(cropped, detection, st)
      [] analyzer_name = "signage" -> SignageAnalyze(cropped, detection, st)
      [] analyzer_name = "pathway" -> PathwayAnalyze(cropped, detection, st)

RequiredKeys == {"type", "severity", "ada_code", "description", "recommendation",
                 "confidence"}

\* one try block around the whole loop: the first KeyError ends the conversion
RECURSIVE ConvertDictsOneTry(_)
ConvertDictsOneTry(violations_dicts) ==
    IF violations_dicts = <<>> THEN <<>>
    ELSE LET v_dict == Head(violations_dicts)
         IN  IF RequiredKeys \subseteq DOMAIN v_dict
             THEN <<ViolationResult(v_dict["type"], v_dict["severity"], v_dict["ada_code"],
                                    v_dict["description"], v_dict["recommendation"],
                                    v_dict["confidence"],
                                    Get(v_dict, "detection_method", S("rule_based_cv")),
                                    Get(v_dict, "measurements", EmptyDict))>>
                  \o ConvertDictsOneTry(Tail(violations_dicts))
             ELSE <<>>

\* the conversion loop: an entry whose construction raises KeyError is skipped
RECURSIVE ConvertDicts(_)
ConvertDicts(violations_dicts) ==
    IF violations_dicts = <<>> THEN <<>>
    ELSE LET v_dict == Head(violations_dicts)
             rest == ConvertDicts(Tail(violations_dicts))
         IN  IF RequiredKeys \subseteq DOMAIN v_dict
             THEN <<ViolationResult(v_dict["type"], v_dict["severity"], v_dict["ada_code"],
                                    v_dict["description"], v_dict["recommendation"],
                                    v_dict["confidence"],
                                    Get(v_dict, "detection_method", S("rule_based_cv")),
                                    Get(v_dict, "measurements", EmptyDict))>> \o rest
             ELSE rest

\* object_type = detection.class_name.lower()
ObjectTypeAsGiven(detection) == detection.class_name

ObjectType(detection) == Lower(detection.class_name)

\* one call of analyze_detection: what it returns or raises, and the category
\* analyzers whose analyze() it called, in call order
RuleBasedAnalyzeDetection(image, detection) ==
    LET object_type == ObjectType(detection)
        cropped == GetCrop(image, detection.bbox)
        analyzer_name == Route(object_type)
        violations_dicts == Analyze(analyzer_name, cropped, detection, detection.scene)
    IN  [invoked |-> <<analyzer_name>>,
         outcome |-> IF violations_dicts.raised THEN violations_dicts
                     ELSE Return(ConvertDicts(violations_dicts.value))]


(***************************************************************************)
(* claude_analyzer.py: ClaudeAPIAnalyzer                                   *)
(* The text of a model answer is a sequence of tokens [k, v]:              *)
(*   "prose"  a word with no brace, backtick or white space                *)
(*   "ws"     one white-space character                                    *)
(*   "fence"  three backticks          "json"   the word json              *)
(*   "lbrace" one {                    "rbrace" one }                      *)
(*   "obj"    the text of a JSON object, v the dict json.loads makes of it *)
(*   "atom"   the text of a JSON value without braces (a number, null, an  *)
(*            empty list), v the value json.loads makes of it              *)
(*   "objf"   the text of a JSON object one of whose strings holds three   *)
(*            backticks, v the dict json.loads makes of it                 *)
(*   "cut"    what is left of an obj or atom without its last character,   *)
(*            or of an objf before its backticks                           *)
(***************************************************************************)
Tok(k) == [k |-> k, v |-> PyNone]
Doc(k, v) == [k |-> k, v |-> v]

RECURSIVE StripLeft(_)
StripLeft(text) ==
    IF text # <<>> /\ Head(text).k = "ws" THEN StripLeft(Tail(text)) ELSE text

RECURSIVE StripRight(_)
StripRight(text) ==
    IF text # <<>> /\ text[Len(text)].k = "ws"
    THEN StripRight(SubSeq(text, 1, Len(text) - 1))
    ELSE text

\* str.strip()
Strip(text) == StripRight(StripLeft(text))

\* json.loads(text): one JSON document between optional white space
JsonLoads(text) ==
    LET body == Strip(text)
    IN  IF Len(body) = 1 /\ body[1].k \in {"obj", "atom", "objf"}
        THEN Return(body[1].v)
        ELSE IF /\ Len(body) >= 2
                /\ body[1].k = "lbrace"
                /\ body[Len(body)].k = "rbrace"
                /\ \A i \in 2..(Len(body) - 1) : body[i].k = "ws"
        THEN Return(PyDict(EmptyDict))
        ELSE Raise("JSONDecodeError")

\* text[:-1], the slice [start:end] takes when find() answers -1
DropLastChar(text) ==
    IF text = <<>> THEN <<>>
    ELSE LET last == text[Len(text)]
             front == SubSeq(text, 1, Len(text) - 1)
         IN  CASE last.k \in {"ws", "lbrace", "rbrace"} -> front
               [] last.k = "atom" /\ last.v.t = "num" -> front
               [] last.k \in {"obj", "atom", "objf"} -> Append(front, Tok("cut"))
               [] OTHER -> Append(front, Tok("prose"))

\* the token positions of a set, smallest first; 0 when find() answers -1
First(positions) ==
    IF positions = {} THEN 0 ELSE CHOOSE i \in positions : \A j \in positions : i <= j
Last(positions) ==
    IF positions = {} THEN 0 ELSE CHOOSE i \in positions : \A j \in positions : i >= j

\* text[start:end].strip() for the fence that ends at token `open`; backticks
\* inside an objf open and close like any other: what follows them inside the
\* objf, and what precedes them, is a fragment that is no JSON
Fenced(text, open) ==
    LET close == First({j \in (open + 1)..Len(text) : text[j].k \in {"fence", "objf"}})
        head == IF text[open].k = "objf" THEN <<Tok("prose")>> ELSE <<>>
        tail == IF close # 0 /\ text[close].k = "objf" THEN <<Tok("cut")>> ELSE <<>>
    IN  IF close = 0
        THEN Strip(head \o DropLastChar(SubSeq(text, open + 1, Len(text))))
        ELSE Strip(head \o SubSeq(text, open + 1, close - 1) \o tail)

\* notes is text[:200]: the texts of the model are shorter than 200 characters
ParseErrorDict(text) ==
    PyDict([violations |-> PyList(<<>>),
            overall_assessment |-> S("Parse error"),
            notes |-> [t |-> "str", text |-> text]])

ExtractJson(text) ==
    LET as_is == JsonLoads(text)
        json_fences == {i \in 1..(Len(text) - 1) :
                           text[i].k = "fence" /\ text[i + 1].k = "json"}
        fences == {i \in 1..Len(text) : text[i].k \in {"fence", "objf"}}
        start == First({i \in 1..Len(text) : text[i].k \in {"lbrace", "obj", "objf"}})
        end == Last({i \in 1..Len(text) : text[i].k \in {"rbrace", "obj", "objf"}})
        json_text == IF json_fences # {} THEN Fenced(text, First(json_fences) + 1)
                     ELSE IF fences # {} THEN Fenced(text, First(fences))
                     ELSE IF start # 0 /\ end # 0 THEN SubSeq(text, start, end)
                     ELSE text
        parsed == JsonLoads(json_text)
    IN  IF ~as_is.raised THEN as_is.value
        ELSE IF ~parsed.raised THEN parsed.value
        ELSE ParseErrorDict(text)

\* client.messages.create and message.content[0].text: the answer is the text
\* or an exception, which the handler turns into an empty response
\* str(e) is the name of the error
ApiErrorDict(e) ==
    PyDict([violations |-> PyList(<<>>),
            overall_assessment |-> S("Error during analysis"),
            notes |-> S(e)])

\* a handler that prints and returns nothing
ClaudeAnalyzeNoReturn(image, answer) ==
    IF answer.raised THEN PyNone ELSE ExtractJson(answer.value)

ClaudeAnalyze(image, answer) ==
    IF answer.raised THEN ApiErrorDict(answer.error) ELSE ExtractJson(answer.value)

MockEntry(type, severity, ada_code, confidence) ==
    PyDict([type |-> S(type),
            severity |-> S(severity),
            ada_code |-> S(ada_code),
            description |-> S("mock description"),
            recommendation |-> S("mock recommendation"),
            confidence |-> confidence])

MockResponse(entries, overall_assessment) ==
    PyDict([violations |-> PyList(entries),
            overall_assessment |-> S(overall_assessment),
            notes |-> S("Mock analysis")])

MockAnalyze(object_name) ==
    IF InList(object_name, <<<<"d", "o", "o", "r">>,
                             <<"e", "n", "t", "r", "a", "n", "c", "e">>>>)
    THEN MockResponse(<<MockEntry("Door Width", "Critical", "404.2.3", N(7, 10))>>,
                      "Potential door width violation")
    ELSE IF InList(object_name, <<<<"c", "a", "r">>, <<"t", "r", "u", "c", "k">>,
                                  <<"p", "a", "r", "k", "i", "n", "g">>>>)
    THEN MockResponse(<<MockEntry("Signage", "Critical", "502.6", N(8, 10))>>,
                      "Missing parking signage")
    ELSE IF InList(object_name, <<<<"c", "h", "a", "i", "r">>, <<"c", "o", "u", "c", "h">>,
                                  <<"b", "e", "n", "c", "h">>,
                                  <<"p", "o", "t", "t", "e", "d", "_", "p", "l", "a", "n", "t">>>>)
    THEN MockResponse(<<MockEntry("Obstruction", "Moderate", "403.5.1", N(6, 10))>>,
                      "Potential pathway obstruction")
    ELSE MockResponse(<<>>, "No obvious violations in this view")

\* the values `for v_dict in violations_data` visits: the items of a list, the
\* keys of a dict, the characters of a str; any other value is not iterable
SetToSeq(set) ==
    CHOOSE seq \in [1..Cardinality(set) -> set] : \A x \in set : \E k \in DOMAIN seq : seq[k] = x

Iterate(value) ==
    CASE value.t = "list" -> Return(value.items)
      [] value.t = "dict" -> Return([k \in 1..Cardinality(DOMAIN value.f) |->
                                        S(SetToSeq(DOMAIN value.f)[k])])
      [] value.t = "str" -> Return([k \in 1..Len(value.chars) |-> Chars(<<value.chars[k]>>)])
      [] OTHER -> Raise("TypeError")

\* the loop body: an entry without .get raises AttributeError, which is caught
RECURSIVE ParseEntries(_)
ParseEntries(violations_data) ==
    IF violations_data = <<>> THEN <<>>
    ELSE LET v_dict == Head(violations_data)
             rest == ParseEntries(Tail(violations_data))
         IN  IF v_dict.t = "dict"
             THEN <<ViolationResult(Get(v_dict.f, "type", S("Unknown")),
                                    Get(v_dict.f, "severity", S("Minor")),
                                    Get(v_dict.f, "ada_code", S("N/A")),
                                    Get(v_dict.f, "description", S("")),
                                    Get(v_dict.f, "recommendation", S("")),
                                    Get(v_dict.f, "confidence", N(5, 10)),
                                    S("claude_api"),
                                    PyNone)>> \o rest
             ELSE rest

ParseResponse(response, object_name) ==
    IF response.t # "dict" THEN Raise("AttributeError")
    ELSE LET violations_data == Iterate(Get(response.f, "violations", PyList(<<>>)))
         IN  IF violations_data.raised THEN violations_data
             ELSE Return(ParseEntries(violations_data.value))

ClaudeAnalyzeDetection(self, image, detection) ==
    LET cropped == GetCrop(image, detection.bbox)
        response == IF self.use_mock THEN MockAnalyze(detection.class_name)
                    ELSE ClaudeAnalyze(cropped, detection.scene.answer)
    IN  IF RegionSize(cropped) = 0 THEN Return(<<>>)
        ELSE ParseResponse(response, detection.class_name)


(***************************************************************************)
(* base_analyzer.py: BaseAnalyzer.analyze_all_detections                   *)
(* A Python dict is a sequence of [key, value] pairs in insertion order.   *)
(***************************************************************************)
DictSet(dict, key, value) ==
    IF \E k \in 1..Len(dict) : dict[k].key = key
    THEN [k \in 1..Len(dict) |->
             IF dict[k].key = key THEN [key |-> key, value |-> value] ELSE dict[k]]
    ELSE Append(dict, [key |-> key, value |-> value])

Digit == <<"0", "1", "2", "3", "4", "5", "6", "7", "8", "9">>

\* str(i) for i >= 0
RECURSIVE Decimal(_)
Decimal(i) == IF i < 10 THEN <<Digit[i + 1]>> ELSE Decimal(i \div 10) \o <<Digit[(i % 10) + 1]>>

\* f"detection_{i}"
DetectionKey(i) == <<"d", "e", "t", "e", "c", "t", "i", "o", "n", "_">> \o Decimal(i)

ToDicts(violations) == [k \in 1..Len(violations) |-> to_dict(violations[k])]

\* self.analyze_detection: the subclass's method
AnalyzeDetection(self, image, detection) ==
    IF self.name = "rule_based_cv"
    THEN RuleBasedAnalyzeDetection(image, detection)
    ELSE [invoked |-> <<>>, outcome |-> ClaudeAnalyzeDetection(self, image, detection)]

\* the same loop analysing the first detection of the batch at every index
RECURSIVE AnalyzeLoopFirstOnly(_, _, _, _, _, _, _)
AnalyzeLoopFirstOnly(self, image, detections, i, results, count, invoked) ==
    IF i >= Len(detections)
    THEN [outcome |-> Return(results), count |-> count, invoked |-> invoked]
    ELSE LET detection == detections[i + 1]
             run == AnalyzeDetection(self, image, detections[1])
             violations == run.outcome
             entry == [object |-> detection.class_name,
                       bbox |-> detection.bbox,
                       violations |-> ToDicts(violations.value),
                       analysis_metadata |-> [analyzer_type |-> self.name,
                                              detection_index |-> i]]
         IN  IF violations.raised
             THEN [outcome |-> violations, count |-> count,
                   invoked |-> invoked \o run.invoked]
             ELSE AnalyzeLoopFirstOnly(self, image, detections, i + 1,
                                       DictSet(results, DetectionKey(i), entry), count + 1,
                                       invoked \o run.invoked)

\* the loop from index i on; `count` is self.analysis_count
RECURSIVE AnalyzeLoop(_, _, _, _, _, _, _)
AnalyzeLoop(self, image, detections, i, results, count, invoked) ==
    IF i >= Len(detections)
    THEN [outcome |-> Return(results), count |-> count, invoked |-> invoked]
    ELSE LET detection == detections[i + 1]
             run == AnalyzeDetection(self, image, detection)
             violations == run.outcome
             entry == [object |-> detection.class_name,
                       bbox |-> detection.bbox,
                       violations |-> ToDicts(violations.value),
                       analysis_metadata |-> [analyzer_type |-> self.name,
                                              detection_index |-> i]]
         IN  IF violations.raised
             THEN [outcome |-> violations, count |-> count,
                   invoked |-> invoked \o run.invoked]
             ELSE AnalyzeLoop(self, image, detections, i + 1,
                              DictSet(results, DetectionKey(i), entry), count + 1,
                              invoked \o run.invoked)

AnalyzeAllDetections(self, image, detections) ==
    AnalyzeLoop(self, image, detections, 0, <<>>, self.analysis_count, <<>>)


(***************************************************************************)
(* Bounds and input sets.                                                  *)
(***************************************************************************)
MaxDim == 5          \* regions of every size 0..MaxDim in both directions
MaxContours == 2     \* contours findContours reports in the door's middle band
MaxLines == 2        \* segments one HoughLinesP call reports
MaxBatch == 2        \* detections in one analyze_all_detections call
MaxCount == 3        \* analyses one analyzer instance runs in a behaviour
MaxTokens == 3       \* tokens in the text of one model answer
MaxEntries == 2      \* items of a "violations" list in a model answer
MaxLuminance == 255  \* largest value of the 8-bit L channel

SeqsUpTo(set, n) == UNION {[1..k -> set] : k \in 0..n}

Dims == 0..MaxDim
Region(h, w) == [h |-> h, w |-> w]
SmallRegions == {Region(h, w) : h \in Dims, w \in Dims}

Labels ==
    {<<"d", "o", "o", "r">>,
     <<"D", "o", "o", "r">>,
     <<"E", "N", "T", "R", "A", "N", "C", "E">>,
     <<"c", "a", "r">>,
     <<"T", "r", "u", "c", "k">>,
     <<"b", "u", "s">>,
     <<"p", "a", "r", "k", "i", "n", "g">>,
     <<"r", "a", "m", "p">>,
     <<"S", "t", "a", "i", "r", "s">>,
     <<"s", "t", "e", "p", "s">>,
     <<"s", "i", "g", "n">>,
     <<"S", "I", "G", "N", "A", "G", "E">>,
     <<"s", "t", "o", "p", "_", "s", "i", "g", "n">>,
     <<"S", "t", "r", "e", "e", "t", "_", "S", "i", "g", "n">>,
     <<"u", "m", "b", "r", "e", "l", "l", "a">>,
     <<"p", "e", "r", "s", "o", "n">>,
     <<"c", "h", "a", "i", "r">>,
     <<"B", "e", "n", "c", "h">>,
     <<"b", "i", "c", "y", "c", "l", "e">>,
     <<"d", "o", "o", "r", "s">>,
     <<>>}

\* what OpenCV reports for a featureless region: no edge row, no contour, no
\* blue or white pixel, no segment, full luminance range, flat patches; and an
\* external model that answers with the empty text
DefaultScene ==
    [horizontal_edges |-> 0, contours |-> <<>>,
     blue_pixels |-> 0, blue_rowsum |-> 0, white_pixels |-> 0,
     slope_lines |-> <<>>, rail_lines |-> <<>>,
     max_luminance |-> 255, min_luminance |-> 0,
     texture_scores |-> <<0, 0, 0, 0>>,
     answer |-> Return(<<>>)]

\* door: edge rows of the bottom section; contours that fit the middle band
ContourPool == {[area2 |-> 0, w |-> 1, h |-> 1],
                [area2 |-> 2, w |-> 2, h |-> 2],
                [area2 |-> 8, w |-> 6, h |-> 2],
                [area2 |-> 12, w |-> 7, h |-> 2],
                [area2 |-> 20, w |-> 5, h |-> 4],
                [area2 |-> 54, w |-> 10, h |-> 4]}

DoorRegions == SmallRegions \cup {Region(20, 10), Region(20, 5), Region(26, 10)}

DoorScenes(region) ==
    IF RegionSize(region) = 0 THEN {DefaultScene}
    ELSE LET band == MiddleEnd(region.h) - MiddleStart(region.h)
             fitting == {c \in ContourPool : c.w <= region.w /\ c.h <= band}
         IN  {[DefaultScene EXCEPT !.horizontal_edges = e, !.contours = cs] :
                 e \in 0..(region.h - BottomStart(region.h)),
                 cs \in SeqsUpTo(fitting, MaxContours)}

\* parking: blue pixels fill rows; their row sum lies between filling from the
\* top and filling from the bottom; blue and white pixels are disjoint
MinRowSum(b, w) ==
    LET q == b \div w
        r == b % w
    IN  (w * q * (q - 1)) \div 2 + r * q

ParkingScenes(region) ==
    IF RegionSize(region) = 0 THEN {DefaultScene}
    ELSE LET size == region.h * region.w
         IN  UNION {{[DefaultScene EXCEPT !.blue_pixels = b, !.blue_rowsum = rs,
                                          !.white_pixels = wh] :
                        rs \in MinRowSum(b, region.w)
                                 ..(b * (region.h - 1) - MinRowSum(b, region.w)),
                        wh \in 0..(size - b)} :
                       b \in 0..size}

\* ramp: the slope check reads x1 # x2 and the angle, the handrail check x1 + x2
AnglePool == {0, 300, 400, 401, 476, 477, 500, 501, 571, 1000, 1001, 1225, 4500,
              7999, 8000, 8500}

SlopeSegments(region) ==
    {[x1 |-> 0, x2 |-> 0, angle |-> 9000]}
    \cup {[x1 |-> 0, x2 |-> region.w - 1, angle |-> a] : a \in {b \in AnglePool : region.w > 1}}

\* vertical and steep segments at every column, and one horizontal segment at
\* the left edge (HoughLinesP returns segments of any direction)
RailSegments(region) ==
    {[x1 |-> x, x2 |-> x, angle |-> 9000] : x \in 0..(region.w - 1)}
    \cup {[x1 |-> x, x2 |-> x + 1, angle |-> 8500] : x \in 0..(region.w - 2)}
    \cup {[x1 |-> 0, x2 |-> 1, angle |-> 0] : x \in 0..Min(0, region.w - 2)}

RampScenes(region) ==
    IF RegionSize(region) = 0 THEN {DefaultScene}
    ELSE {[DefaultScene EXCEPT !.slope_lines = sl] :
             sl \in SeqsUpTo(SlopeSegments(region), MaxLines)}
         \cup {[DefaultScene EXCEPT !.rail_lines = rl] :
             rl \in SeqsUpTo(RailSegments(region), MaxLines)}

\* signage: luminance extrema of an 8-bit channel; one score for every patch
SignRegions == SmallRegions
               \cup {Region(h, w) : h \in {20, 21, 40, 41}, w \in {20, 21, 40, 41}}
ScorePool == {0, 149, 150, 249, 250}

SignageScenes(region) ==
    IF RegionSize(region) = 0
    THEN {DefaultScene}
    ELSE {[DefaultScene EXCEPT !.max_luminance = lum[1], !.min_luminance = lum[2]] :
             lum \in {l \in (0..MaxLuminance) \X (0..MaxLuminance) :
                         l[2] <= l[1] /\ region = Region(1, 1)}}
         \cup {[DefaultScene EXCEPT !.max_luminance = lum[1], !.min_luminance = lum[2],
                                    !.texture_scores = ts] :
             lum \in {<<255, 0>>, <<138, 107>>, <<255, 107>>},
             ts \in {t \in ScorePool \X ScorePool \X ScorePool \X ScorePool :
                        (region.h < patch_size \/ region.w < patch_size)
                            => t = <<0, 0, 0, 0>>}}

(***************************************************************************)
(* Calls.  A direct call of a category analyzer passes a region and a      *)
(* detection; analyze_detection passes the full image and a detection.     *)
(***************************************************************************)
Detection(class_name, bbox, scene) ==
    [class_name |-> class_name, bbox |-> bbox, scene |-> scene]

Call(target, image, detection) ==
    [target |-> target, image |-> image, detection |-> detection]

BoxOf(region) == <<0, 0, region.w, region.h>>

\* the image analyze_detection crops from, and the boxes of its detections:
\* empty, inside the image, clipped by its border, outside it
FullImage == Region(14, MaxDim + 1)
Boxes == {<<0, 0, 0, 3>>, <<0, 0, 3, 0>>, <<0, 0, 1, 3>>, <<1, 1, 1, 4>>, <<0, 0, 2, 5>>,
          <<0, 0, 2, 14>>, <<MaxDim, 12, 3, 3>>,
          <<1, 0, MaxDim, MaxDim>>,
          <<MaxDim + 1, 0, 2, 2>>}

CanonicalLabels == {<<"d", "o", "o", "r">>, <<"c", "a", "r">>, <<"r", "a", "m", "p">>, <<"s", "i", "g", "n">>, <<"c", "h", "a", "i", "r">>, <<"u", "m", "b", "r", "e", "l", "l", "a">>}

\* for analyze_detection a crop has every door, ramp and signage scene, and
\* the parking scenes whose blue row sum is at one of its two extremes
ExtremeParkingScenes(region) ==
    IF RegionSize(region) = 0 THEN {DefaultScene}
    ELSE LET size == region.h * region.w
         IN  UNION {{[DefaultScene EXCEPT !.blue_pixels = b, !.blue_rowsum = rs,
                                          !.white_pixels = wh] :
                        rs \in {MinRowSum(b, region.w),
                                b * (region.h - 1) - MinRowSum(b, region.w)},
                        wh \in 0..(size - b)} :
                       b \in 0..size}

(***************************************************************************)
(* Answers of the external model.                                          *)
(***************************************************************************)
Absent == [t |-> "absent"]

SeverityValues == {S("Critical"), S("Moderate"), S("Minor"), S("High"), I(3), PyNone, Absent}
ConfidenceValues == {N(7, 10), N(0, 1), N(1, 1), N(15, 10), N(-1, 2), S("high"), PyNone, Absent}

\* an entry of a "violations" list: a JSON object with or without a severity,
\* a confidence and the four text fields
Entry(severity, confidence, complete) ==
    LET keys == (IF severity = Absent THEN {} ELSE {"severity"})
                \cup (IF confidence = Absent THEN {} ELSE {"confidence"})
                \cup (IF complete THEN {"type", "ada_code", "description", "recommendation"}
                      ELSE {})
    IN  PyDict([k \in keys |->
                   CASE k = "severity" -> severity
                     [] k = "confidence" -> confidence
                     [] k = "type" -> S("Door Width")
                     [] k = "ada_code" -> S("404.2.3")
                     [] OTHER -> S("text")])

Entries == {Entry(sv, cf, complete) :
               sv \in SeverityValues, cf \in ConfidenceValues, complete \in BOOLEAN}

\* items of a list: three entries and three values that are no object
ItemPool == {Entry(S("Critical"), N(7, 10), TRUE),
             Entry(S("High"), N(15, 10), FALSE),
             Entry(Absent, Absent, FALSE),
             I(5), PyNone, Chars(<<"a">>)}

\* what the key "violations" holds: a list, or a value of another type
ViolationsValues ==
    {PyList(<<e>>) : e \in Entries}
    \cup {PyList(items) : items \in SeqsUpTo(ItemPool, MaxEntries)}
    \cup {I(5), PyNone, Chars(<<"a", "b">>), PyDict([a |-> I(1)])}

Objects ==
    {PyDict(EmptyDict), PyDict([overall_assessment |-> S("fine")])}
    \cup {PyDict([violations |-> v, notes |-> S("n")]) : v \in ViolationsValues}

TokenPool ==
    {Tok("prose"), Tok("ws"), Tok("fence"), Tok("json"), Tok("lbrace"), Tok("rbrace"),
     Doc("obj", PyDict([violations |-> PyList(<<Entry(S("Critical"), N(7, 10), TRUE)>>)])),
     Doc("obj", PyDict([violations |-> I(5)])),
     Doc("obj", PyDict(EmptyDict)),
     Doc("atom", I(5)), Doc("atom", PyNone), Doc("atom", PyList(<<>>)),
     Doc("objf", PyDict([violations |-> PyList(<<>>), notes |-> S("see three backticks")]))}

\* two number atoms side by side would be the text of one number
IsTokenized(text) ==
    \A i \in 1..(Len(text) - 1) :
        ~(text[i] = Doc("atom", I(5)) /\ text[i + 1] = Doc("atom", I(5)))

\* an object as the whole answer, after a sentence, inside a fence with or
\* without the word json, inside a fence that is not closed
Wrapped(doc) ==
    {<<doc>>,
     <<Tok("prose"), Tok("ws"), doc>>,
     <<Tok("fence"), Tok("json"), Tok("ws"), doc, Tok("ws"), Tok("fence")>>,
     <<Tok("prose"), Tok("ws"), Tok("fence"), Tok("json"), doc, Tok("fence"), Tok("ws"),
       Tok("prose")>>,
     <<Tok("fence"), Tok("ws"), Tok("prose"), Tok("ws"), Tok("fence"), Tok("ws"), doc>>,
     <<Tok("fence"), Tok("ws"), doc, Tok("ws"), Tok("fence")>>,
     <<Tok("fence"), Tok("json"), doc>>}

\* objects one of whose strings holds three backticks
FencedObjects ==
    {Doc("objf", PyDict([violations |-> PyList(<<>>), notes |-> S("see three backticks")])),
     Doc("objf", PyDict([violations |-> PyList(<<Entry(S("Critical"), N(7, 10), TRUE)>>),
                         notes |-> S("see three backticks")]))}

\* what client.messages.create or message.content[0] raises
ApiErrors == {"APIError", "APIConnectionError", "IndexError"}

\* the detections of one call of the model-backed analyzer
ClaudeBoxes == {<<0, 0, 2, 2>>, <<0, 0, 0, 3>>}

(***************************************************************************)
(* State.                                                                  *)
(*   name, analysis_count : the fields of the analyzer (BaseAnalyzer)      *)
(*   use_mock : the field of ClaudeAPIAnalyzer (FALSE for the rule-based   *)
(*              analyzer, which has no such field)                         *)
(*   op      : the operation called last ("none" before the first call)    *)
(*   input   : its arguments                                               *)
(*   outcome : what it returned or raised                                  *)
(*   invoked : the category analyzers whose analyze() it called, in order  *)
(***************************************************************************)
VARIABLES name, analysis_count, use_mock, op, input, outcome, invoked

vars == <<name, analysis_count, use_mock, op, input, outcome, invoked>>

self == [name |-> name, analysis_count |-> analysis_count, use_mock |-> use_mock]

NoOutcome == [raised |-> FALSE, value |-> <<>>]

(***************************************************************************)
(* SpecCV: one call of one category analyzer, or of the rule-based         *)
(* analyze_detection, its arguments drawn in the initial state.            *)
(***************************************************************************)
DirectInput(target, class_name, regions, Scenes(_)) ==
    \E r \in regions : \E sc \in Scenes(r) :
        input = Call(target, r, Detection(class_name, BoxOf(r), sc))

RoutedInput(Scenes(_)) ==
    \E b \in Boxes : \E sc \in Scenes(GetCrop(FullImage, b)) :
        \E l \in CanonicalLabels :
            input = Call("rule_based_cv", FullImage, Detection(l, b, sc))

InitCV ==
    /\ name = "rule_based_cv"
    /\ analysis_count = 0
    /\ use_mock = FALSE
    /\ op = "none"
    /\ outcome = NoOutcome
    /\ invoked = <<>>
    /\ \/ DirectInput("door", <<"d", "o", "o", "r">>, DoorRegions, DoorScenes)
       \/ DirectInput("parking", <<"c", "a", "r">>, SmallRegions, ParkingScenes)
       \/ DirectInput("ramp", <<"r", "a", "m", "p">>, SmallRegions, RampScenes)
       \/ DirectInput("signage", <<"s", "i", "g", "n">>, SignRegions, SignageScenes)
       \/ \E r \in SmallRegions, l \in Labels, b \in Dims \X Dims :
             input = Call("pathway", r, Detection(l, <<0, 0, b[1], b[2]>>, DefaultScene))
       \/ \E k \in 1..Len(obstruction_objects), r \in {Region(1, 1), Region(MaxDim, MaxDim)} :
             input = Call("pathway", r, Detection(obstruction_objects[k], BoxOf(r), DefaultScene))
       \/ RoutedInput(DoorScenes)
       \/ RoutedInput(ExtremeParkingScenes)
       \/ RoutedInput(RampScenes)
       \/ RoutedInput(SignageScenes)
       \/ \E l \in Labels, b \in Boxes :
             input = Call("rule_based_cv", FullImage, Detection(l, b, DefaultScene))

DirectCall(target) ==
    /\ op = "none"
    /\ input.target = target
    /\ outcome' = Analyze(target, input.image, input.detection, input.detection.scene)
    /\ invoked' = <<target>>
    /\ op' = "analyze"
    /\ UNCHANGED <<name, analysis_count, use_mock, input>>

CallDoor == DirectCall("door")
CallParking == DirectCall("parking")
CallPathway == DirectCall("pathway")
CallRamp == DirectCall("ramp")
CallSignage == DirectCall("signage")

CallAnalyzeDetection ==
    /\ op = "none"
    /\ input.target = name
    /\ LET run == AnalyzeDetection(self, input.image, input.detection)
       IN  /\ outcome' = run.outcome
           /\ invoked' = run.invoked
    /\ op' = "analyze_detection"
    /\ UNCHANGED <<name, analysis_count, use_mock, input>>

NextCV ==
    \/ CallDoor
    \/ CallParking
    \/ CallPathway
    \/ CallRamp
    \/ CallSignage
    \/ CallAnalyzeDetection

SpecCV == InitCV /\ [][NextCV]_vars

(***************************************************************************)
(* SpecClaude: one call of ClaudeAPIAnalyzer.analyze_detection, the answer *)
(* of the external model drawn in the initial state.                       *)
(***************************************************************************)
ClaudeInput(answer) ==
    \E b \in ClaudeBoxes :
        input = Call("claude_api", FullImage,
                     Detection(<<"d", "o", "o", "r">>, b,
                               [DefaultScene EXCEPT !.answer = answer]))

InitClaude ==
    /\ name = "claude_api"
    /\ analysis_count = 0
    /\ op = "none"
    /\ outcome = NoOutcome
    /\ invoked = <<>>
    /\ \/ /\ use_mock = TRUE
          /\ \E l \in Labels, b \in ClaudeBoxes :
                input = Call("claude_api", FullImage, Detection(l, b, DefaultScene))
       \/ /\ use_mock = FALSE
          /\ \/ \E e \in ApiErrors : ClaudeInput(Raise(e))
             \/ \E text \in SeqsUpTo(TokenPool, MaxTokens) :
                   IsTokenized(text) /\ ClaudeInput(Return(text))
             \/ \E doc \in {Doc("obj", o) : o \in Objects} \cup FencedObjects :
                   \E text \in Wrapped(doc) : ClaudeInput(Return(text))

NextClaude == CallAnalyzeDetection

SpecClaude == InitClaude /\ [][NextClaude]_vars

(***************************************************************************)
(* SpecSteps: the steps of analyze_detection called one at a time.  For    *)
(* the model-backed analyzer: _claude_analyze or _mock_analyze, then       *)
(* _parse_response on what it returned; _extract_json on the answer text;  *)
(* analyze_detection as a whole.  For the rule-based analyzer: the         *)
(* conversion loop of analyze_detection on a list of raw findings.         *)
(***************************************************************************)
\* a raw finding of a category analyzer that holds the keys `keys`
RawFinding(type, keys) ==
    [k \in keys |->
        CASE k = "type" -> S(type)
          [] k = "severity" -> S("Critical")
          [] k = "confidence" -> N(7, 10)
          [] k = "measurements" -> [aspect_ratio |-> N(26, 10)]
          [] OTHER -> S("text")]

FindingPool ==
    {RawFinding("Door Width", RequiredKeys),
     RawFinding("Ramp Slope", RequiredKeys \cup {"detection_method", "measurements"}),
     RawFinding("Sign Contrast", RequiredKeys \ {"severity"}),
     RawFinding("Door Hardware", RequiredKeys \ {"confidence"}),
     RawFinding("Sign Height", {})}

InitConvert ==
    /\ name = "rule_based_cv"
    /\ analysis_count = 0
    /\ use_mock = FALSE
    /\ op = "none"
    /\ outcome = NoOutcome
    /\ invoked = <<>>
    /\ \E violations_dicts \in SeqsUpTo(FindingPool, MaxEntries + 1) :
          input = [target |-> "conversion", violations_dicts |-> violations_dicts]

InitSteps == InitClaude \/ InitConvert

CallConvertDicts ==
    /\ op = "none"
    /\ input.target = "conversion"
    /\ outcome' = Return(ConvertDicts(input.violations_dicts))
    /\ op' = "conversion"
    /\ UNCHANGED <<name, analysis_count, use_mock, input, invoked>>

CallClaudeAnalyze ==
    /\ op = "none"
    /\ input.target = "claude_api"
    /\ ~use_mock
    /\ RegionSize(GetCrop(input.image, input.detection.bbox)) > 0
    /\ outcome' = Return(ClaudeAnalyze(GetCrop(input.image, input.detection.bbox),
                                       input.detection.scene.answer))
    /\ op' = "_claude_analyze"
    /\ UNCHANGED <<name, analysis_count, use_mock, input, invoked>>

CallExtractJson ==
    /\ op = "none"
    /\ input.target = "claude_api"
    /\ ~use_mock
    /\ ~input.detection.scene.answer.raised
    /\ outcome' = Return(ExtractJson(input.detection.scene.answer.value))
    /\ op' = "_extract_json"
    /\ UNCHANGED <<name, analysis_count, use_mock, input, invoked>>

CallMockAnalyze ==
    /\ op = "none"
    /\ input.target = "claude_api"
    /\ use_mock
    /\ outcome' = Return(MockAnalyze(input.detection.class_name))
    /\ op' = "_mock_analyze"
    /\ UNCHANGED <<name, analysis_count, use_mock, input, invoked>>

\* _parse_response on the response the step before returned
CallParseResponse ==
    /\ op \in {"_claude_analyze", "_mock_analyze"}
    /\ outcome' = ParseResponse(outcome.value, input.detection.class_name)
    /\ input' = [target |-> input.target, image |-> input.image,
                 detection |-> input.detection, response |-> outcome.value]
    /\ op' = "_parse_response"
    /\ UNCHANGED <<name, analysis_count, use_mock, invoked>>

NextSteps ==
    \/ CallAnalyzeDetection
    \/ CallClaudeAnalyze
    \/ CallExtractJson
    \/ CallMockAnalyze
    \/ CallParseResponse
    \/ CallConvertDicts

SpecSteps == InitSteps /\ [][NextSteps]_vars

(***************************************************************************)
(* Spec: one analyzer instance, rule-based or model-backed, on which       *)
(* analyze_detection and analyze_all_detections are called again and       *)
(* again with detections of one image.                                     *)
(***************************************************************************)
RuleBasedPool ==
    {Detection(<<"d", "o", "o", "r">>, <<0, 0, 2, 14>>, DefaultScene),
     Detection(<<"C", "a", "r">>, <<0, 0, 2, 5>>, DefaultScene),
     Detection(<<"u", "m", "b", "r", "e", "l", "l", "a">>, <<1, 1, 1, 4>>, DefaultScene),
     Detection(<<"c", "h", "a", "i", "r">>, <<0, 0, 0, 3>>, DefaultScene),
     Detection(<<"S", "t", "r", "e", "e", "t", "_", "S", "i", "g", "n">>, <<MaxDim, 12, 3, 3>>,
               DefaultScene)}

MockPool ==
    {Detection(<<"d", "o", "o", "r">>, <<0, 0, 2, 14>>, DefaultScene),
     Detection(<<"D", "o", "o", "r">>, <<0, 0, 2, 14>>, DefaultScene),
     Detection(<<"c", "a", "r">>, <<0, 0, 2, 5>>, DefaultScene),
     Detection(<<"c", "h", "a", "i", "r">>, <<0, 0, 0, 3>>, DefaultScene),
     Detection(<<"u", "m", "b", "r", "e", "l", "l", "a">>, <<1, 1, 1, 4>>, DefaultScene)}

ApiPool ==
    {Detection(<<"d", "o", "o", "r">>, <<0, 0, 2, 14>>,
               [DefaultScene EXCEPT !.answer =
                   Return(<<Doc("obj", PyDict([violations |->
                               PyList(<<Entry(S("Critical"), N(7, 10), TRUE)>>)]))>>)]),
     Detection(<<"c", "a", "r">>, <<0, 0, 2, 5>>,
               [DefaultScene EXCEPT !.answer = Return(<<Tok("prose")>>)]),
     Detection(<<"c", "h", "a", "i", "r">>, <<1, 1, 1, 4>>,
               [DefaultScene EXCEPT !.answer = Return(<<Doc("atom", PyList(<<>>))>>)]),
     Detection(<<"c", "h", "a", "i", "r">>, <<0, 0, 0, 3>>,
               [DefaultScene EXCEPT !.answer = Return(<<Doc("atom", PyList(<<>>))>>)]),
     Detection(<<"s", "i", "g", "n">>, <<1, 1, 1, 4>>,
               [DefaultScene EXCEPT !.answer = Raise("APIError")])}

DetectionPool ==
    IF name = "rule_based_cv" THEN RuleBasedPool
    ELSE IF use_mock THEN MockPool
    ELSE ApiPool

Init ==
    /\ \/ name = "rule_based_cv" /\ use_mock = FALSE
       \/ name = "claude_api" /\ use_mock \in BOOLEAN
    /\ analysis_count = 0
    /\ op = "none"
    /\ input = Call(name, FullImage, <<>>)
    /\ outcome = NoOutcome
    /\ invoked = <<>>

AnalyzeOne ==
    \E detection \in DetectionPool :
        LET run == AnalyzeDetection(self, FullImage, detection)
        IN  /\ op' = "analyze_detection"
            /\ input' = Call(name, FullImage, detection)
            /\ outcome' = run.outcome
            /\ invoked' = run.invoked
            /\ UNCHANGED <<name, analysis_count, use_mock>>

AnalyzeAll ==
    /\ analysis_count < MaxCount
    /\ \E detections \in SeqsUpTo(DetectionPool, MaxBatch) :
          LET run == AnalyzeAllDetections(self, FullImage, detections)
          IN  /\ op' = "analyze_all_detections"
              /\ input' = [target |-> name, image |-> FullImage, detections |-> detections]
              /\ outcome' = run.outcome
              /\ analysis_count' = run.count
              /\ invoked' = run.invoked
              /\ UNCHANGED <<name, use_mock>>

Next ==
    \/ AnalyzeOne
    \/ AnalyzeAll

Spec == Init /\ [][Next]_vars

(***************************************************************************)
(* Properties of one call (SpecCV).                                        *)
(***************************************************************************)
Severities == {S("Critical"), S("Moderate"), S("Minor")}

\* the records of the returned list that carry the given type
Findings(type) == SelectSeq(outcome.value, LAMBDA v : v.type = S(type))

CalledDirectly(target) ==
    op = "analyze" /\ input.target = target /\ RegionSize(input.image) > 0

\* C1: analyze() of each of the five category analyzers, called on a region
\* of zero width or zero height, returns the empty list and raises nothing,
\* whatever the detection passed with it says.
C1_EmptyRegionYieldsNoFinding ==
    (op = "analyze" /\ RegionSize(input.image) = 0) => outcome = Return(<<>>)

C1_Witness ==
    /\ op = "analyze"
    /\ invoked = <<"pathway">>
    /\ input.image = Region(0, 3)
    /\ input.detection.class_name = <<"c", "h", "a", "i", "r">>
    /\ input.detection.bbox = <<0, 0, 2, 3>>
    /\ outcome = Return(<<>>)

\* C2: every record that the rule-based analyze_detection returns (and every
\* record a category analyzer returns to it) has a severity among Critical,
\* Moderate and Minor and a confidence between 0 and 1, whatever the label and
\* whatever OpenCV measured.
C2_RuleBasedRecordsInRange ==
    (op \in {"analyze", "analyze_detection"} /\ name = "rule_based_cv" /\ ~outcome.raised)
        => \A k \in 1..Len(outcome.value) :
              LET v == outcome.value[k]
              IN  /\ v.severity \in Severities
                  /\ v.confidence.t = "num"
                  /\ v.confidence.d > 0
                  /\ 0 <= v.confidence.n
                  /\ v.confidence.n <= v.confidence.d

C2_Witness ==
    /\ op = "analyze_detection"
    /\ name = "rule_based_cv"
    /\ ~outcome.raised
    /\ Len(outcome.value) = 3
    /\ \E k \in 1..3 : /\ outcome.value[k].type = S("Door Threshold")
                       /\ outcome.value[k].confidence = N(205, 300)

\* C5: the router sends door and entrance to the door analyzer, car, truck,
\* bus and parking to the parking analyzer, ramp, stairs and steps to the ramp
\* analyzer, sign, signage, stop_sign and street_sign to the signage analyzer
\* and every other label to the pathway analyzer; one category analyzer is
\* invoked per detection, and the letter case of the label does not matter.
C5_Category(class_name) ==
    CASE class_name \in {<<"d", "o", "o", "r">>, <<"D", "o", "o", "r">>,
                         <<"E", "N", "T", "R", "A", "N", "C", "E">>} -> "door"
      [] class_name \in {<<"c", "a", "r">>, <<"T", "r", "u", "c", "k">>, <<"b", "u", "s">>,
                         <<"p", "a", "r", "k", "i", "n", "g">>} -> "parking"
      [] class_name \in {<<"r", "a", "m", "p">>, <<"S", "t", "a", "i", "r", "s">>,
                         <<"s", "t", "e", "p", "s">>} -> "ramp"
      [] class_name \in {<<"s", "i", "g", "n">>, <<"S", "I", "G", "N", "A", "G", "E">>,
                         <<"s", "t", "o", "p", "_", "s", "i", "g", "n">>,
                         <<"S", "t", "r", "e", "e", "t", "_", "S", "i", "g", "n">>} -> "signage"
      [] OTHER -> "pathway"

C5_RouterTable ==
    (op = "analyze_detection" /\ name = "rule_based_cv")
        => invoked = <<C5_Category(input.detection.class_name)>>

C5_Witness ==
    /\ op = "analyze_detection"
    /\ name = "rule_based_cv"
    /\ input.detection.class_name = <<"S", "t", "r", "e", "e", "t", "_", "S", "i", "g", "n">>
    /\ RegionSize(GetCrop(input.image, input.detection.bbox)) > 0
    /\ invoked = <<"signage">>

\* C6: on a non-empty region of height h and width w the door analyzer reports
\* a Door Width finding exactly when h/w > 2.5; the finding is Critical, with
\* confidence 0.70 when h/w > 3.0 and 0.60 when 2.5 < h/w <= 3.0.
C6_DoorWidthByRatio ==
    CalledDirectly("door")
        => LET h == input.image.h
               w == input.image.w
               found == Findings("Door Width")
           IN  /\ ~outcome.raised
               /\ Len(found) = (IF 2 * h > 5 * w THEN 1 ELSE 0)
               /\ \A k \in 1..Len(found) :
                     /\ found[k].severity = S("Critical")
                     /\ found[k].confidence = (IF h > 3 * w THEN N(70, 100) ELSE N(60, 100))

C6_Witness ==
    /\ CalledDirectly("door")
    /\ input.image = Region(3, 1)
    /\ Len(Findings("Door Width")) = 1
    /\ Findings("Door Width")[1].confidence = N(60, 100)

\* C7: on a non-empty region the parking analyzer reports a Critical Parking
\* Signage finding when less than 5% of the pixels are blue, a Wheelchair
\* Symbol finding when at least 5% are blue and less than 2% are near-white,
\* neither when both fractions are reached; never the two together.
C7_ParkingSignageByColour ==
    CalledDirectly("parking")
        => LET size == input.image.h * input.image.w
               blue == 100 * input.detection.scene.blue_pixels >= 5 * size
               white == 100 * input.detection.scene.white_pixels >= 2 * size
               signage == Findings("Parking Signage")
               symbol == Findings("Wheelchair Symbol")
           IN  /\ ~outcome.raised
               /\ Len(signage) = (IF ~blue THEN 1 ELSE 0)
               /\ Len(symbol) = (IF blue /\ ~white THEN 1 ELSE 0)
               /\ \A k \in 1..Len(signage) : signage[k].severity = S("Critical")
               /\ Len(signage) + Len(symbol) <= 1

C7_Witness ==
    /\ CalledDirectly("parking")
    /\ input.image = Region(4, 5)
    /\ input.detection.scene.blue_pixels = 1
    /\ input.detection.scene.white_pixels = 0
    /\ Len(Findings("Wheelchair Symbol")) = 1
    /\ Len(Findings("Parking Signage")) = 0

\* C8: with L1 and L2 the largest and smallest luminance (0..255, scaled to
\* [0, 1]) and ratio = (L1 + 0.05) / (L2 + 0.05), the signage analyzer reports
\* no Sign Contrast finding when ratio >= 3.0, a Moderate one when
\* 2.5 <= ratio < 3.0 and a Critical one when ratio < 2.5.
C8_ContrastByRatio ==
    CalledDirectly("signage")
        => LET num == 100 * input.detection.scene.max_luminance + 5 * MaxLuminance
               den == 100 * input.detection.scene.min_luminance + 5 * MaxLuminance
               found == Findings("Sign Contrast")
           IN  /\ ~outcome.raised
               /\ (10 * num >= 30 * den => Len(found) = 0)
               /\ (10 * num < 30 * den => Len(found) = 1)
               /\ \A k \in 1..Len(found) :
                     found[k].severity
                         = (IF 10 * num < 25 * den THEN S("Critical") ELSE S("Moderate"))

C8_Witness ==
    /\ CalledDirectly("signage")
    /\ input.detection.scene.max_luminance = 40
    /\ input.detection.scene.min_luminance = 5
    /\ Len(Findings("Sign Contrast")) = 1
    /\ Findings("Sign Contrast")[1].severity = S("Moderate")

\* C9: when the only segment detected in a region is a diagonal whose angle a
\* from the horizontal exceeds 4.76 degrees, the ramp analyzer reports a Ramp
\* Slope finding whose detected_angle_degrees is a rounded to one decimal.
C9_SteepSegmentReported ==
    (/\ CalledDirectly("ramp")
     /\ Len(input.detection.scene.slope_lines) = 1
     /\ input.detection.scene.slope_lines[1].x1 # input.detection.scene.slope_lines[1].x2
     /\ input.detection.scene.slope_lines[1].angle > 476)
        => /\ ~outcome.raised
           /\ Len(Findings("Ramp Slope")) = 1
           /\ Findings("Ramp Slope")[1].measurements.detected_angle_degrees
                 = N(RoundDiv(input.detection.scene.slope_lines[1].angle, 10), 10)

(***************************************************************************)
(* Properties of the model-backed analyzer (SpecClaude) and of the         *)
(* aggregator (Spec).                                                      *)
(***************************************************************************)
\* C3: every record the model-backed analyzer builds from an answer has a
\* severity among Critical, Moderate and Minor and a confidence between 0 and
\* 1, whatever severity and confidence the entries of the answer carry.
C3_ClaudeRecordsInRange ==
    (op = "analyze_detection" /\ name = "claude_api" /\ ~outcome.raised)
        => \A k \in 1..Len(outcome.value) :
              LET v == outcome.value[k]
              IN  /\ v.severity \in Severities
                  /\ v.confidence.t = "num"
                  /\ 0 <= v.confidence.n
                  /\ v.confidence.n <= v.confidence.d

\* C4: for a list of N detections analyze_all_detections returns a mapping of
\* exactly N entries with the keys detection_0 .. detection_{N-1} in input
\* order, entry i carrying the class name and the box of the i-th detection.
C4_Key(i) ==
    <<"d", "e", "t", "e", "c", "t", "i", "o", "n", "_">>
        \o <<(<<"0", "1", "2", "3", "4", "5", "6", "7", "8", "9">>)[i + 1]>>

C4_OneEntryPerDetection ==
    op = "analyze_all_detections"
        => /\ ~outcome.raised
           /\ Len(outcome.value) = Len(input.detections)
           /\ \A i \in 1..Len(input.detections) :
                 /\ outcome.value[i].key = C4_Key(i - 1)
                 /\ outcome.value[i].value.object = input.detections[i].class_name
                 /\ outcome.value[i].value.bbox = input.detections[i].bbox

\* C10: analyze_detection of the model-backed analyzer returns a list and
\* raises nothing, whatever text the external model answers with: text that
\* is no JSON, and JSON of any shape.
C10_ClaudeNeverRaises ==
    (op = "analyze_detection" /\ name = "claude_api") => ~outcome.raised

C19_Steepest(lines) ==
    LET band == {lines[k].angle : k \in {j \in 1..Len(lines) :
                     lines[j].x1 # lines[j].x2 /\ 1000 < lines[j].angle
                     /\ lines[j].angle < 8000}}
    IN  IF band = {} THEN 0 ELSE CHOOSE m \in band : \A a \in band : a <= m

\* C19: the steepest angle of the band gives a Critical "Ramp Slope" finding
\* above the maximum-slope threshold and a Moderate one between the warning
\* threshold and the maximum, and each of the two severities is the outcome
\* of the slope check for some region and segments (the second conjunct
\* ranges over every ramp input of the specification).
C19_BothSlopeSeveritiesOccur ==
    /\ CalledDirectly("ramp")
           => \A k \in 1..Len(Findings("Ramp Slope")) :
                  LET steepest == C19_Steepest(input.detection.scene.slope_lines)
                  IN  Findings("Ramp Slope")[k].severity =
                          IF steepest > 500 THEN S("Critical") ELSE S("Moderate")
    /\ \A severity \in {"Critical", "Moderate"} :
           \E r \in SmallRegions :
               /\ RegionSize(r) > 0
               /\ \E sc \in RampScenes(r) :
                      LET found == RampCheckSlope(r, r.h, r.w, sc)
                      IN  /\ ~found.raised
                          /\ found.value # PyNone
                          /\ found.value.severity = S(severity)

\* handrail evidence for a side: a segment HoughLinesP found (long enough by
\* its minLineLength) that is near-vertical and whose middle lies in the
\* side's third of the width
C21_Evidence(lines, width, side) ==
    \E k \in 1..Len(lines) :
        /\ lines[k].angle >= 8000
        /\ IF side = "left" THEN 3 * (lines[k].x1 + lines[k].x2) < 2 * width
           ELSE 3 * (lines[k].x1 + lines[k].x2) > 4 * width

\* C21: "Ramp Handrails" is reported if and only if the left or the right
\* third holds no long near-vertical segment, and the finding names exactly
\* the sides that lack one.
C21_HandrailsBySide ==
    CalledDirectly("ramp")
        => LET lines == input.detection.scene.rail_lines
               lacking == (IF C21_Evidence(lines, input.image.w, "left") THEN <<>>
                           ELSE <<"left">>)
                          \o (IF C21_Evidence(lines, input.image.w, "right") THEN <<>>
                              ELSE <<"right">>)
           IN  /\ ~outcome.raised
               /\ Len(Findings("Ramp Handrails")) = IF lacking = <<>> THEN 0 ELSE 1
               /\ \A k \in 1..Len(Findings("Ramp Handrails")) :
                      Len(lines) > 0
                          => Findings("Ramp Handrails")[k].description.missing = lacking

C26_NoHeightWithoutSignage ==
    (op \in {"analyze", "analyze_detection"} /\ ~outcome.raised)
        => ~(Len(Findings("Parking Signage")) > 0 /\ Len(Findings("Sign Height")) > 0)

(***************************************************************************)
(* C23: a direct call of the signage analyzer on a non-empty region        *)
(* reports one "Tactile Features" finding (Minor, confidence 0.55) exactly *)
(* when at least one patch was scored, the mean patch score is below 15.0  *)
(* and the largest patch score is below 25.0; with no scored patch it      *)
(* reports none.  Scores are in tenths.                                    *)
(***************************************************************************)
C23_Scored == SubSeq(input.detection.scene.texture_scores, 1, PatchCount(input.image.h, input.image.w))

C23_Smooth ==
    /\ Len(C23_Scored) > 0
    /\ SeqSum(C23_Scored) < 150 * Len(C23_Scored)
    /\ \A k \in 1..Len(C23_Scored) : C23_Scored[k] < 250

C23_TactileByTexture ==
    CalledDirectly("signage")
        => /\ ~outcome.raised
           /\ Len(Findings("Tactile Features")) = IF C23_Smooth THEN 1 ELSE 0
           /\ \A k \in 1..Len(Findings("Tactile Features")) :
                  /\ Findings("Tactile Features")[k].severity = S("Minor")
                  /\ Findings("Tactile Features")[k].confidence = N(55, 100)

C23_Witness ==
    /\ CalledDirectly("signage")
    /\ input.image = Region(41, 21)
    /\ C23_Scored = <<0, 249>>
    /\ ~outcome.raised
    /\ Len(Findings("Tactile Features")) = 1

(***************************************************************************)
(* C24: a direct call of the door analyzer on a non-empty region reports   *)
(* one "Door Hardware" finding (Minor, confidence 0.50) exactly when fewer *)
(* than 2 of the contours found in the band of rows 40% to 60% of the      *)
(* height are compact: area strictly between 0.2% and 5% of the region and *)
(* longer side of the bounding box less than 3 times the shorter one.      *)
(* area2 is twice the contour's area.                                      *)
(***************************************************************************)
C24_Compact(c, region) ==
    /\ 1000 * c.area2 > 2 * 2 * region.w * region.h
    /\ 100 * c.area2 < 2 * 5 * region.w * region.h
    /\ Max(c.w, c.h) < 3 * Min(c.w, c.h)

C24_CompactCount ==
    Cardinality({k \in 1..Len(BandContours(input.image.h, input.detection.scene)) :
                    C24_Compact(BandContours(input.image.h, input.detection.scene)[k], input.image)})

C27_BoxInside ==
    LET bbox == input.detection.bbox
    IN  /\ bbox[1] >= 0 /\ bbox[2] >= 0 /\ bbox[3] > 0 /\ bbox[4] > 0
        /\ bbox[1] + bbox[3] <= input.image.w
        /\ bbox[2] + bbox[4] <= input.image.h

C27_HighRisk == {<<"c", "h", "a", "i", "r">>, <<"c", "o", "u", "c", "h">>, <<"b", "e", "n", "c", "h">>, <<"b", "i", "c", "y", "c", "l", "e">>}

C28_BandsNonEmpty ==
    CalledDirectly("door")
        => /\ input.image.h - BottomStart(input.image.h) >= 1
           /\ MiddleEnd(input.image.h) - MiddleStart(input.image.h) >= 1

(***************************************************************************)
(* C29: the tactile check scores floor(h / 20) * floor(w / 20) patches of  *)
(* a region of height h and width w, so a region of at least 20 pixels in  *)
(* both directions has a scored patch: if all its patches are flat, the    *)
(* "Tactile Features" finding is reported.                                 *)
(***************************************************************************)
C29_PatchGrid ==
    CalledDirectly("signage")
        => /\ PatchCount(input.image.h, input.image.w) = (input.image.h \div 20) * (input.image.w \div 20)
           /\ (/\ input.image.h >= 20
               /\ input.image.w >= 20
               /\ input.detection.scene.texture_scores = <<0, 0, 0, 0>>
               /\ ~outcome.raised)
                  => Len(Findings("Tactile Features")) = 1

C20_AllowList ==
    {<<"c", "h", "a", "i", "r">>, <<"c", "o", "u", "c", "h">>, <<"b", "e", "n", "c", "h">>,
     <<"p", "o", "t", "t", "e", "d", "_", "p", "l", "a", "n", "t">>, <<"v", "a", "s", "e">>,
     <<"s", "u", "i", "t", "c", "a", "s", "e">>, <<"b", "a", "c", "k", "p", "a", "c", "k">>,
     <<"h", "a", "n", "d", "b", "a", "g">>, <<"u", "m", "b", "r", "e", "l", "l", "a">>,
     <<"b", "i", "c", "y", "c", "l", "e">>, <<"m", "o", "t", "o", "r", "c", "y", "c", "l", "e">>,
     <<"f", "i", "r", "e", "_", "h", "y", "d", "r", "a", "n", "t">>}

\* C20: on a non-empty region the pathway analyzer returns exactly one
\* "Pathway Obstruction" finding when the label, lower-cased, is one of the
\* twelve of the allow-list, and no finding for any other label.
C20_AllowListDecides ==
    CalledDirectly("pathway")
        => /\ ~outcome.raised
           /\ IF Lower(input.detection.class_name) \in C20_AllowList
              THEN Len(outcome.value) = 1 /\ outcome.value[1].type = S("Pathway Obstruction")
              ELSE outcome.value = <<>>

C20_Witness ==
    /\ CalledDirectly("pathway")
    /\ input.detection.class_name = <<"B", "e", "n", "c", "h">>
    /\ ~outcome.raised
    /\ Len(outcome.value) = 1
    /\ outcome.value[1].type = S("Pathway Obstruction")

(***************************************************************************)
(* Properties of the steps of analyze_detection (SpecSteps).               *)
(***************************************************************************)
Answer == input.detection.scene.answer

\* C11: when the call of the external model raises, _claude_analyze returns
\* the response with no violations, the assessment "Error during analysis"
\* and the error text as notes, and analyze_detection returns the empty list.
C11_ApiErrorBecomesEmptyResult ==
    /\ (op = "_claude_analyze" /\ Answer.raised)
           => outcome = Return(PyDict([violations |-> PyList(<<>>),
                                       overall_assessment |-> S("Error during analysis"),
                                       notes |-> S(Answer.error)]))
    /\ (op = "analyze_detection" /\ name = "claude_api" /\ ~use_mock /\ Answer.raised)
           => outcome = Return(<<>>)

C11_Witness ==
    /\ op = "analyze_detection"
    /\ name = "claude_api"
    /\ ~use_mock
    /\ Answer = Raise("APIConnectionError")
    /\ RegionSize(GetCrop(input.image, input.detection.bbox)) > 0
    /\ outcome = Return(<<>>)

\* the text is prose, a fence with the word json, the JSON object at token d,
\* the closing fence and prose again
C12_Wraps(text, d) ==
    /\ text[d].k \in {"obj", "objf"}
    /\ \E o \in 1..(d - 2), c \in (d + 1)..Len(text) :
          /\ text[o].k = "fence"
          /\ text[o + 1].k = "json"
          /\ text[c].k = "fence"
          /\ \A i \in ((o + 2)..(d - 1)) \cup ((d + 1)..(c - 1)) : text[i].k = "ws"
          /\ \A i \in (1..(o - 1)) \cup ((c + 1)..Len(text)) : text[i].k \in {"prose", "ws"}

\* C12: for a text that is no JSON as a whole and holds a JSON object inside
\* a fence with the word json, prose before and after, _extract_json returns
\* the object that parsing the fenced content gives.
C12_FencedObjectExtracted ==
    (op = "_extract_json" /\ JsonLoads(Answer.value).raised)
        => \A d \in 1..Len(Answer.value) :
               C12_Wraps(Answer.value, d) => outcome = Return(Answer.value[d].v)

\* no piece of the text is a JSON document
C13_Unparseable(text) ==
    \A i \in 1..(Len(text) + 1), j \in 0..Len(text) : JsonLoads(SubSeq(text, i, j)).raised

\* C13: for a text from which no JSON can be parsed, _extract_json returns
\* an object with an empty violations list and a non-empty notes field.
C13_ParseErrorHasNotes ==
    (op = "_extract_json" /\ C13_Unparseable(Answer.value))
        => /\ outcome.value.t = "dict"
           /\ {"violations", "notes"} \subseteq DOMAIN outcome.value.f
           /\ outcome.value.f.violations = PyList(<<>>)
           /\ outcome.value.f.notes.t = "str"
           /\ outcome.value.f.notes.text # <<>>

C14_Defaults ==
    [type |-> S("Unknown"), severity |-> S("Minor"), ada_code |-> S("N/A"),
     description |-> S(""), recommendation |-> S(""), confidence |-> N(5, 10)]

IsObject(item) == item.t = "dict"

\* the response handed to _parse_response holds a list under "violations"
HoldsList(response) ==
    /\ response.t = "dict"
    /\ "violations" \in DOMAIN response.f
    /\ response.f.violations.t = "list"

\* C14: the record _parse_response makes of a response entry has, for each of
\* the six fields, the entry's value when the entry holds the field and the
\* default otherwise; detection_method is "claude_api", measurements is empty.
C14_MissingFieldsDefaulted ==
    (op = "_parse_response" /\ HoldsList(input.response))
        => LET entries == SelectSeq(input.response.f.violations.items, IsObject)
           IN  /\ ~outcome.raised
               /\ Len(outcome.value) = Len(entries)
               /\ \A k \in 1..Len(entries) :
                      LET v == outcome.value[k]
                          v_dict == entries[k].f
                      IN  /\ \A field \in DOMAIN C14_Defaults :
                                v[field] = IF field \in DOMAIN v_dict THEN v_dict[field]
                                           ELSE C14_Defaults[field]
                          /\ v.detection_method = S("claude_api")
                          /\ v.measurements = EmptyDict

C14_Witness ==
    /\ op = "_parse_response"
    /\ HoldsList(input.response)
    /\ input.response.f.violations.items = <<Entry(S("High"), Absent, FALSE)>>
    /\ ~outcome.raised
    /\ Len(outcome.value) = 1
    /\ outcome.value[1].type = S("Unknown")
    /\ outcome.value[1].severity = S("High")
    /\ outcome.value[1].confidence = N(5, 10)

HasRequiredKeys(v_dict) == RequiredKeys \subseteq DOMAIN v_dict

\* C16: the conversion of a list of raw entries to records never raises,
\* drops each entry whose construction fails (rule-based: a required key is
\* missing; model-backed: the entry is no object) and keeps the others in
\* their order.
C16_FailedEntriesDropped ==
    /\ op = "conversion"
           => LET kept == SelectSeq(input.violations_dicts, HasRequiredKeys)
              IN  /\ ~outcome.raised
                  /\ Len(outcome.value) = Len(kept)
                  /\ \A k \in 1..Len(kept) : outcome.value[k].type = kept[k]["type"]
    /\ (op = "_parse_response" /\ HoldsList(input.response))
           => LET kept == SelectSeq(input.response.f.violations.items, IsObject)
              IN  /\ ~outcome.raised
                  /\ Len(outcome.value) = Len(kept)
                  /\ \A k \in 1..Len(kept) :
                         outcome.value[k].severity =
                             IF "severity" \in DOMAIN kept[k].f THEN kept[k].f.severity
                             ELSE S("Minor")

C16_Witness ==
    /\ op = "conversion"
    /\ input.violations_dicts = <<RawFinding("Sign Contrast", RequiredKeys \ {"severity"}),
                                  RawFinding("Door Width", RequiredKeys),
                                  RawFinding("Door Hardware", RequiredKeys \ {"confidence"})>>
    /\ ~outcome.raised
    /\ Len(outcome.value) = 1
    /\ outcome.value[1].type = S("Door Width")

\* the second and the third strategy, each tried on its own
C17_FencedBlock(text) ==
    LET json_fences == {i \in 1..(Len(text) - 1) :
                           text[i].k = "fence" /\ text[i + 1].k = "json"}
        fences == {i \in 1..Len(text) : text[i].k \in {"fence", "objf"}}
    IN  IF json_fences # {} THEN JsonLoads(Fenced(text, First(json_fences) + 1))
        ELSE IF fences # {} THEN JsonLoads(Fenced(text, First(fences)))
        ELSE Raise("no fence")

C17_BraceSpan(text) ==
    LET start == First({i \in 1..Len(text) : text[i].k \in {"lbrace", "obj", "objf"}})
        end == Last({i \in 1..Len(text) : text[i].k \in {"rbrace", "obj", "objf"}})
    IN  IF start # 0 /\ end # 0 THEN JsonLoads(SubSeq(text, start, end))
        ELSE Raise("no braces")

\* C17: _extract_json returns the JSON of the first of the three strategies
\* (the whole text, the content of a fenced block, the outermost brace span)
\* that yields valid JSON, and the parse-error result only when all three
\* fail.
C17_FirstStrategyThatParses ==
    op = "_extract_json"
        => LET text == Answer.value
               whole == JsonLoads(text)
               block == C17_FencedBlock(text)
               span == C17_BraceSpan(text)
           IN  outcome = Return(IF ~whole.raised THEN whole.value
                                ELSE IF ~block.raised THEN block.value
                                ELSE IF ~span.raised THEN span.value
                                ELSE ParseErrorDict(text))

(***************************************************************************)
(* Properties of the aggregator output (Spec).                             *)
(***************************************************************************)
\* C15: every violation in the mapping analyze_all_detections returns for
\* the rule-based analyzer has exactly the eight fields of to_dict, and its
\* measurements hold numbers only.
C15_SerializedViolations ==
    (op = "analyze_all_detections" /\ name = "rule_based_cv" /\ ~outcome.raised)
        => \A i \in 1..Len(outcome.value) :
               \A k \in 1..Len(outcome.value[i].value.violations) :
                   LET v == outcome.value[i].value.violations[k]
                   IN  /\ DOMAIN v = {"type", "severity", "ada_code", "description",
                                      "recommendation", "confidence", "detection_method",
                                      "measurements"}
                       /\ \A key \in DOMAIN v.measurements : v.measurements[key].t = "num"

(***************************************************************************)
(* C25: the rule-based analyzer's result for a detection depends only on   *)
(* the detection and the image.  The entry a batch holds for a detection   *)
(* is compared with the entry a new analyzer instance gives for the        *)
(* detection alone.                                                        *)
(***************************************************************************)
C25_NewInstance == [name |-> "rule_based_cv", analysis_count |-> 0, use_mock |-> FALSE]

C25_Alone(detection) == AnalyzeAllDetections(C25_NewInstance, FullImage, <<detection>>).outcome

C25_BatchDone == name = "rule_based_cv" /\ op = "analyze_all_detections" /\ ~outcome.raised

C30_Step ==
    /\ analysis_count' >= analysis_count
    /\ op' = "analyze_detection" => analysis_count' = analysis_count
    /\ op' = "analyze_all_detections"
           => analysis_count' = analysis_count + IF outcome'.raised THEN 0 ELSE Len(input'.detections)

C30_CountsCompletedBatches == [][C30_Step]_vars

=============================================================================
